---- MODULE Spec2Model ----
(***************************************************************************)
(* A model of client/http.py: HttpClient, a wrapper over an aiohttp        *)
(* ClientSession with a JSON codec and three prometheus failure counters.  *)
(* The transport, the codec and the counters are the collaborators the     *)
(* class calls; each post/get is a coroutine that is suspended at its      *)
(* awaits (entering the request context, reading the body).                *)
(***************************************************************************)
EXTENDS Integers, Sequences, FiniteSets, TLC

(***************************************************************************)
(* Bounds of the model.                                                    *)
(***************************************************************************)
\* Number of post/get coroutines that may be in flight together.
MaxCalls == 2
\* Number of stop() calls made on the executor.
MaxStops == 2
\* Longest list / dict among the JSON values exchanged.
MaxItems == 1

HTTP_200_OK == 200

(***************************************************************************)
(* Python values.  None is Python's None: it is what orjson.loads returns  *)
(* for the JSON text null, and what _do_request returns on failure.        *)
(***************************************************************************)
None == [t |-> "null"]
PyBool(b) == [t |-> "bool", b |-> b]
PyInt(i) == [t |-> "int", i |-> i]
PyStr(s) == [t |-> "str", s |-> s]
PyList(l) == [t |-> "list", l |-> l]
\* A dict is the sequence of its items in insertion order, keys unique.
PyDict(d) == [t |-> "dict", d |-> d]
PyBytes(y) == [t |-> "bytes", y |-> y]
\* A value orjson cannot encode (a set, an arbitrary object).
PyObject == [t |-> "object"]

Item(k, v) == [k |-> k, v |-> v]

\* Strings and bytes are sequences of one-character strings.
StrValues == {<<>>, <<"a", "\"">>}
IntValues == {7, -12}

JsonScalars ==
    {None, PyBool(TRUE), PyBool(FALSE)}
        \cup {PyInt(i) : i \in IntValues}
        \cup {PyStr(s) : s \in StrValues}

ItemValues == {None, PyInt(7), PyStr(<<"a">>)}

RECURSIVE SeqsUpTo(_, _)
SeqsUpTo(S, n) ==
    IF n = 0 THEN {<<>>}
    ELSE LET shorter == SeqsUpTo(S, n - 1)
         IN  shorter \cup {Append(s, x) : s \in shorter, x \in S}

UniqueKeys(d) == \A i, j \in 1..Len(d) : d[i].k = d[j].k => i = j

DictItems == {Item(k, v) : k \in {<<"a">>, <<"b">>}, v \in ItemValues}

\* The JSON-representable values of the model.
JsonValues ==
    JsonScalars
        \cup {PyList(l) : l \in SeqsUpTo(ItemValues, MaxItems)}
        \cup {PyDict(d) : d \in {x \in SeqsUpTo(DictItems, MaxItems) : UniqueKeys(x)}}

(***************************************************************************)
(* json_serialize = orjson.dumps: compact JSON text, TypeError on a value  *)
(* that has no JSON form.                                                  *)
(***************************************************************************)
DigitChars == <<"0", "1", "2", "3", "4", "5", "6", "7", "8", "9">>

RECURSIVE IntDigits(_)
IntDigits(n) ==
    IF n < 10 THEN <<DigitChars[n + 1]>>
    ELSE IntDigits(n \div 10) \o <<DigitChars[(n % 10) + 1]>>

RECURSIVE EscapeStr(_)
EscapeStr(s) ==
    IF s = <<>> THEN <<>>
    ELSE LET c == Head(s)
         IN  (IF c = "\"" \/ c = "\\" THEN <<"\\", c>> ELSE <<c>>)
                 \o EscapeStr(Tail(s))

QuoteStr(s) == <<"\"">> \o EscapeStr(s) \o <<"\"">>

RECURSIVE Serializable(_)
Serializable(v) ==
    CASE v.t \in {"null", "bool", "int", "str"} -> TRUE
      [] v.t = "list" -> \A i \in 1..Len(v.l) : Serializable(v.l[i])
      [] v.t = "dict" -> \A i \in 1..Len(v.d) : Serializable(v.d[i].v)
      [] OTHER -> FALSE

RECURSIVE Encode(_), EncodeList(_), EncodeDict(_)
Encode(v) ==
    CASE v.t = "null" -> <<"n", "u", "l", "l">>
      [] v.t = "bool" -> IF v.b THEN <<"t", "r", "u", "e">>
                         ELSE <<"f", "a", "l", "s", "e">>
      [] v.t = "int" -> IF v.i < 0 THEN <<"-">> \o IntDigits(-v.i)
                        ELSE IntDigits(v.i)
      [] v.t = "str" -> QuoteStr(v.s)
      [] v.t = "list" -> <<"[">> \o EncodeList(v.l) \o <<"]">>
      [] v.t = "dict" -> <<"{">> \o EncodeDict(v.d) \o <<"}">>

EncodeList(l) ==
    IF l = <<>> THEN <<>>
    ELSE Encode(Head(l))
             \o (IF Len(l) > 1 THEN <<",">> \o EncodeList(Tail(l)) ELSE <<>>)

EncodeDict(d) ==
    IF d = <<>> THEN <<>>
    ELSE QuoteStr(Head(d).k) \o <<":">> \o Encode(Head(d).v)
             \o (IF Len(d) > 1 THEN <<",">> \o EncodeDict(Tail(d)) ELSE <<>>)

\* [ok |-> FALSE] stands for the serializer raising.
json_serialize(v) ==
    IF Serializable(v) THEN [ok |-> TRUE, bytes |-> Encode(v)]
    ELSE [ok |-> FALSE, bytes |-> <<>>]

(***************************************************************************)
(* json_deserialize = orjson.loads: a recursive-descent JSON reader over   *)
(* the body, JSONDecodeError on malformed text.                            *)
(***************************************************************************)
ParseFail == [ok |-> FALSE, val |-> None, next |-> 0]
ParseOk(v, n) == [ok |-> TRUE, val |-> v, next |-> n]

Whitespace == {" "}
Digits == {DigitChars[i] : i \in 1..10}
DigitValue(c) == (CHOOSE i \in 1..10 : DigitChars[i] = c) - 1

RECURSIVE SkipWs(_, _)
SkipWs(b, i) == IF i <= Len(b) /\ b[i] \in Whitespace THEN SkipWs(b, i + 1) ELSE i

HasAt(b, i, lit) ==
    /\ i + Len(lit) - 1 <= Len(b)
    /\ \A k \in 1..Len(lit) : b[i + k - 1] = lit[k]

RECURSIVE ParseDigits(_, _, _)
\* Reads the digits from position i on; acc is the value read so far.
ParseDigits(b, i, acc) ==
    IF i <= Len(b) /\ b[i] \in Digits
    THEN ParseDigits(b, i + 1, acc * 10 + DigitValue(b[i]))
    ELSE ParseOk(acc, i)

ParseNumber(b, i) ==
    LET neg == i <= Len(b) /\ b[i] = "-"
        j == IF neg THEN i + 1 ELSE i
    IN  IF ~(j <= Len(b) /\ b[j] \in Digits) THEN ParseFail
        ELSE IF b[j] = "0" /\ j + 1 <= Len(b) /\ b[j + 1] \in Digits THEN ParseFail
        ELSE LET r == ParseDigits(b, j, 0)
             IN  ParseOk(PyInt(IF neg THEN -r.val ELSE r.val), r.next)

RECURSIVE ParseChars(_, _, _)
\* Reads string characters from position i (after the opening quote).
ParseChars(b, i, acc) ==
    IF i > Len(b) THEN ParseFail
    ELSE IF b[i] = "\"" THEN ParseOk(acc, i + 1)
    ELSE IF b[i] = "\\"
         THEN IF i + 1 <= Len(b) /\ b[i + 1] \in {"\"", "\\"}
              THEN ParseChars(b, i + 2, Append(acc, b[i + 1]))
              ELSE ParseFail
    ELSE ParseChars(b, i + 1, Append(acc, b[i]))

ParseString(b, i) ==
    IF i <= Len(b) /\ b[i] = "\"" THEN ParseChars(b, i + 1, <<>>) ELSE ParseFail

\* A repeated key keeps its first position and takes the last value.
PutItem(d, k, v) ==
    IF \E i \in 1..Len(d) : d[i].k = k
    THEN [i \in 1..Len(d) |-> IF d[i].k = k THEN Item(k, v) ELSE d[i]]
    ELSE Append(d, Item(k, v))

RECURSIVE ParseValue(_, _), ParseElements(_, _, _), ParseMembers(_, _, _)
ParseValue(b, i0) ==
    LET i == SkipWs(b, i0)
    IN  IF i > Len(b) THEN ParseFail
        ELSE IF HasAt(b, i, <<"n", "u", "l", "l">>) THEN ParseOk(None, i + 4)
        ELSE IF HasAt(b, i, <<"t", "r", "u", "e">>) THEN ParseOk(PyBool(TRUE), i + 4)
        ELSE IF HasAt(b, i, <<"f", "a", "l", "s", "e">>) THEN ParseOk(PyBool(FALSE), i + 5)
        ELSE IF b[i] = "\""
             THEN LET r == ParseString(b, i)
                  IN  IF r.ok THEN ParseOk(PyStr(r.val), r.next) ELSE ParseFail
        ELSE IF b[i] = "["
             THEN LET j == SkipWs(b, i + 1)
                  IN  IF j <= Len(b) /\ b[j] = "]" THEN ParseOk(PyList(<<>>), j + 1)
                      ELSE ParseElements(b, j, <<>>)
        ELSE IF b[i] = "{"
             THEN LET j == SkipWs(b, i + 1)
                  IN  IF j <= Len(b) /\ b[j] = "}" THEN ParseOk(PyDict(<<>>), j + 1)
                      ELSE ParseMembers(b, j, <<>>)
        ELSE ParseNumber(b, i)

\* Reads "value (, value)* ]" from position i; acc is the list read so far.
ParseElements(b, i, acc) ==
    LET r == ParseValue(b, i)
    IN  IF ~r.ok THEN ParseFail
        ELSE LET j == SkipWs(b, r.next)
                 l == Append(acc, r.val)
             IN  IF j > Len(b) THEN ParseFail
                 ELSE IF b[j] = "]" THEN ParseOk(PyList(l), j + 1)
                 ELSE IF b[j] = "," THEN ParseElements(b, j + 1, l)
                 ELSE ParseFail

\* Reads "string : value (, string : value)* }" from position i.
ParseMembers(b, i0, acc) ==
    LET i == SkipWs(b, i0)
        k == ParseString(b, i)
    IN  IF ~k.ok THEN ParseFail
        ELSE LET c == SkipWs(b, k.next)
             IN  IF ~(c <= Len(b) /\ b[c] = ":") THEN ParseFail
                 ELSE LET r == ParseValue(b, c + 1)
                      IN  IF ~r.ok THEN ParseFail
                          ELSE LET j == SkipWs(b, r.next)
                                   d == PutItem(acc, k.val, r.val)
                               IN  IF j > Len(b) THEN ParseFail
                                   ELSE IF b[j] = "}" THEN ParseOk(PyDict(d), j + 1)
                                   ELSE IF b[j] = "," THEN ParseMembers(b, j + 1, d)
                                   ELSE ParseFail

\* [ok |-> FALSE] stands for the deserializer raising.
json_deserialize(b) ==
    LET r == ParseValue(b, 1)
    IN  IF r.ok /\ SkipWs(b, r.next) > Len(b) THEN [ok |-> TRUE, val |-> r.val]
        ELSE [ok |-> FALSE, val |-> None]

(***************************************************************************)
(* Inputs of the calls and answers of the transport.                       *)
(***************************************************************************)
app_name == "svc"
\* The constructor's http_request_timeout, in seconds.
http_request_timeout == PyInt(2)

Urls == {"http://x/y", "http://x/z"}
\* The per-call timeout argument: omitted (None) or given.
Timeouts == {None, PyInt(5)}
\* The request values handed to post: one orjson encodes, one it rejects.
Requests == {PyDict(<<Item(<<"a">>, PyInt(7))>>), PyObject}
\* The params handed to get.
ParamsValues == {"None", "q=1"}
DEFAULT_POST_HEADERS == "Content-Type: application/json, accept: application/json"
DEFAULT_GET_HEADERS == "accept: application/json"
PostHeaders == {DEFAULT_POST_HEADERS}
GetHeaders == {DEFAULT_GET_HEADERS}
\* Headers a caller may supply in place of the defaults (None included).
CallerHeaders == {"None", "x-caller: 1"}

Statuses == {HTTP_200_OK, 201, 404}
\* Exceptions the awaits of _do_request may raise, by the except clause that
\* matches them: asyncio.TimeoutError, or any other Exception.
ExceptionKinds == {"TimeoutError", "Exception"}
\* Response bodies: JSON texts (compact, or with whitespace) and malformed ones.
Bodies ==
    { Encode(None),
      Encode(PyDict(<<Item(<<"a">>, PyInt(7))>>)),
      <<" ", "[", "7", " ", "]">>,
      <<"{", "\"", "a", "\"", ":">>,
      <<>> }

Calls == 1..MaxCalls
Labels == {<<app_name, u>> : u \in Urls}

(***************************************************************************)
(* State.                                                                  *)
(***************************************************************************)
VARIABLES
    session,                \* self.session: the ClientSession of __init__
    sessionsCreated,        \* number of ClientSession(...) constructions
    stops,                  \* number of stop() calls made
    closeCalls,             \* number of session.close() invocations
    stopRaised,             \* whether a stop() call raised
    http_requests_failed,   \* Counter, by (app_name, url)
    http_requests_timeout,  \* Counter, by (app_name, url)
    http_exceptions,        \* Counter, by (app_name, url)
    calls                   \* the post/get coroutines, by call id

counters == <<http_requests_failed, http_requests_timeout, http_exceptions>>
vars == <<session, sessionsCreated, stops, closeCalls, stopRaised,
          http_requests_failed, http_requests_timeout, http_exceptions, calls>>

\* No transport invocation is pending.
NoInv == [verb |-> "none"]
NoIncs == [failed |-> 0, timeout |-> 0, exceptions |-> 0]

\* A coroutine that has not been called yet.
IdleCall ==
    [ pc |-> "idle",        \* idle, enter, read, text, done, raised
      url |-> "",
      timeout |-> None,     \* the per-call timeout argument
      given |-> NoInv,      \* the caller's arguments, while the invocation is pending
      inv |-> NoInv,        \* the pending transport invocation
      sent |-> 0,           \* transport invocations made by this call
      status |-> 0,         \* response.status, 0 before a response
      body |-> <<>>,        \* raw_data read on the 200 path
      raisedAt |-> "",      \* the step that raised: serialize, transport, read, text, deserialize
      raisedKind |-> "",    \* what it raised
      outcome |-> "",       \* ok, failed, timeout, exception
      incs |-> NoIncs,      \* the counter increments this call made
      ret |-> None ]        \* the value returned to the caller

ClientSession(timeout) == [id |-> 1, timeout |-> timeout, closed |-> FALSE]

Init ==
    /\ session = ClientSession(http_request_timeout)
    /\ sessionsCreated = 1
    /\ stops = 0
    /\ closeCalls = 0
    /\ stopRaised = FALSE
    /\ http_requests_failed = [l \in Labels |-> 0]
    /\ http_requests_timeout = [l \in Labels |-> 0]
    /\ http_exceptions = [l \in Labels |-> 0]
    /\ calls = [c \in Calls |-> IdleCall]

(***************************************************************************)
(* Counter.labels(app_name, url).inc()                                     *)
(***************************************************************************)
\* A lost update: the new value is written from a stale read of the counter.
inc_stale(counter, url) == [counter EXCEPT ![<<app_name, url>>] = 1]

\* The url label left out: one entry is shared by every url.
inc_unlabelled(counter, url) == [l \in DOMAIN counter |-> counter[l] + 1]

inc(counter, url) == [counter EXCEPT ![<<app_name, url>>] = @ + 1]

\* The increments a step made for url, added to a call's own tally.
Tally(call) ==
    LET l == <<app_name, call.url>>
    IN  [ failed |-> call.incs.failed
                        + http_requests_failed'[l] - http_requests_failed[l],
          timeout |-> call.incs.timeout
                        + http_requests_timeout'[l] - http_requests_timeout[l],
          exceptions |-> call.incs.exceptions
                        + http_exceptions'[l] - http_exceptions[l] ]

(***************************************************************************)
(* _do_request, from one suspension point to the next.                     *)
(***************************************************************************)
\* "except Exception" written first: it also catches the timeout.
ExceptClause_generic_first(kind) == "exception"

\* A bare "except:" in place of "except asyncio.TimeoutError".
ExceptClause_bare_timeout(kind) == "timeout"

\* The except clause that catches an exception raised in the try block.
ExceptClause(kind) == IF kind = "TimeoutError" THEN "timeout" ELSE "exception"

\* The exception is swallowed without being counted.
Catch_uncounted(c, call, kind, at) ==
    /\ UNCHANGED counters
    /\ calls' = [calls EXCEPT ![c] =
           [call EXCEPT !.pc = "done", !.given = NoInv, !.inv = NoInv,
                        !.timeout = None,
                        !.raisedAt = at, !.raisedKind = kind,
                        !.outcome = ExceptClause(kind), !.ret = None]]

\* The handler counts the exception and the generic handler counts it again.
Catch_counted_twice(c, call, kind, at) ==
    /\ http_requests_timeout' = inc(http_requests_timeout, call.url)
    /\ http_exceptions' = inc(http_exceptions, call.url)
    /\ UNCHANGED http_requests_failed
    /\ calls' = [calls EXCEPT ![c] =
           [call EXCEPT !.pc = "done", !.given = NoInv, !.inv = NoInv,
                        !.timeout = None,
                        !.raisedAt = at, !.raisedKind = kind,
                        !.outcome = ExceptClause(kind), !.incs = Tally(call),
                        !.ret = None]]

\* except asyncio.TimeoutError / except Exception, then return None.
Catch(c, call, kind, at) ==
    LET clause == ExceptClause(kind)
    IN  /\ http_requests_timeout' =
               IF clause = "timeout" THEN inc(http_requests_timeout, call.url)
               ELSE http_requests_timeout
        /\ http_exceptions' =
               IF clause = "exception" THEN inc(http_exceptions, call.url)
               ELSE http_exceptions
        /\ UNCHANGED http_requests_failed
        /\ calls' = [calls EXCEPT ![c] =
               [call EXCEPT !.pc = "done", !.given = NoInv, !.inv = NoInv,
                        !.timeout = None,
                            !.raisedAt = at, !.raisedKind = kind,
                            !.outcome = clause, !.incs = Tally(call),
                            !.ret = None]]

\* ssl=False left out: the transport verifies certificates by default.
Invocation_default_ssl(verb, url, request, params, headers, timeout) ==
    [ verb |-> verb, url |-> url, data |-> request, params |-> params,
      headers |-> headers, timeout |-> timeout, ssl |-> TRUE,
      session |-> session.id, sessionClosed |-> session.closed ]

\* The params keyword left out of the call.
Invocation_no_params(verb, url, request, params, headers, timeout) ==
    [ verb |-> verb, url |-> url, data |-> request, params |-> "None",
      headers |-> headers, timeout |-> timeout, ssl |-> FALSE,
      session |-> session.id, sessionClosed |-> session.closed ]

\* method(url, data=request, params=params, headers=headers, timeout=timeout,
\* ssl=False): the call handed to the session.
Invocation(verb, url, request, params, headers, timeout) ==
    [ verb |-> verb, url |-> url, data |-> request, params |-> params,
      headers |-> headers, timeout |-> timeout, ssl |-> FALSE,
      session |-> session.id, sessionClosed |-> session.closed ]

\* What the caller handed to post or get.
Given(verb, request, params, headers) ==
    [verb |-> verb, request |-> request, params |-> params, headers |-> headers]

\* async with method(...): the request is handed to the transport and the
\* coroutine waits for the response.  given is the caller's own arguments,
\* kept beside the invocation they led to.
do_request(c, given, verb, url, request, params, headers, timeout) ==
    /\ calls' = [calls EXCEPT ![c] =
           [IdleCall EXCEPT !.pc = "enter", !.url = url, !.timeout = timeout,
                            !.given = given, !.sent = calls[c].sent + 1,
                            !.inv = Invocation(verb, url, request, params,
                                               headers, timeout)]]
    /\ UNCHANGED counters

\* The serializer called inside the try block of the request: its exception
\* is counted like a transport failure.
post_serialize_in_try(c, url, request, headers, timeout) ==
    /\ calls[c].pc = "idle"
    /\ LET data == json_serialize(request)
       IN  IF data.ok
           THEN do_request(c, Given("POST", request, "None", headers),
                           "POST", url, PyBytes(data.bytes), "None",
                           headers, timeout)
           ELSE Catch(c, [IdleCall EXCEPT !.url = url], "Exception", "serialize")
    /\ UNCHANGED <<session, sessionsCreated, stops, closeCalls, stopRaised>>

post(c, url, request, headers, timeout) ==
    /\ calls[c].pc = "idle"
    /\ LET data == json_serialize(request)
       IN  IF data.ok
           THEN do_request(c, Given("POST", request, "None", headers),
                           "POST", url, PyBytes(data.bytes), "None",
                           headers, timeout)
           ELSE \* the serializer raises while the arguments are evaluated
                /\ calls' = [calls EXCEPT ![c] =
                       [IdleCall EXCEPT !.pc = "raised", !.url = url,
                                        !.raisedAt = "serialize",
                                        !.raisedKind = "Exception"]]
                /\ UNCHANGED counters
    /\ UNCHANGED <<session, sessionsCreated, stops, closeCalls, stopRaised>>

get(c, url, params, headers, timeout) ==
    /\ calls[c].pc = "idle"
    /\ do_request(c, Given("GET", None, params, headers),
                  "GET", url, None, params, headers, timeout)
    /\ UNCHANGED <<session, sessionsCreated, stops, closeCalls, stopRaised>>

\* The failed-status counter incremented as soon as the status is seen,
\* before the text is read.
Respond_count_first(c, status) ==
    /\ calls[c].pc = "enter"
    /\ ~calls[c].inv.sessionClosed
    /\ calls' = [calls EXCEPT ![c] =
           [@ EXCEPT !.pc = IF status = HTTP_200_OK THEN "read" ELSE "text",
                     !.status = status, !.given = NoInv, !.inv = NoInv,
                     !.timeout = None]]
    /\ http_requests_failed' =
           IF status = HTTP_200_OK THEN http_requests_failed
           ELSE inc(http_requests_failed, calls[c].url)
    /\ UNCHANGED <<http_requests_timeout, http_exceptions>>
    /\ UNCHANGED <<session, sessionsCreated, stops, closeCalls, stopRaised>>

\* The transport answers with a status: the 200 path awaits response.read(),
\* every other status awaits response.text().
Respond(c, status) ==
    /\ calls[c].pc = "enter"
    /\ ~calls[c].inv.sessionClosed
    /\ calls' = [calls EXCEPT ![c] =
           [@ EXCEPT !.pc = IF status = HTTP_200_OK THEN "read" ELSE "text",
                     !.status = status, !.given = NoInv, !.inv = NoInv,
                     !.timeout = None]]
    /\ UNCHANGED <<session, sessionsCreated, stops, closeCalls, stopRaised, counters>>

\* An await of the try block raises: entering the request context, reading
\* the body, reading the text.  A closed session only rejects the request.
Raise(c, kind) ==
    /\ calls[c].pc \in {"enter", "read", "text"}
    /\ (calls[c].pc = "enter" /\ calls[c].inv.sessionClosed) => kind = "Exception"
    /\ Catch(c, calls[c], kind,
             IF calls[c].pc = "enter" THEN "transport" ELSE calls[c].pc)
    /\ UNCHANGED <<session, sessionsCreated, stops, closeCalls, stopRaised>>

\* raw_data = await response.read(); return self.json_deserialize(raw_data)
Read(c, body) ==
    /\ calls[c].pc = "read"
    /\ LET call == [calls[c] EXCEPT !.body = body]
           decoded == json_deserialize(body)
       IN  IF decoded.ok
           THEN /\ calls' = [calls EXCEPT ![c] =
                       [call EXCEPT !.pc = "done", !.outcome = "ok",
                                    !.ret = decoded.val]]
                /\ UNCHANGED counters
           ELSE Catch(c, call, "Exception", "deserialize")
    /\ UNCHANGED <<session, sessionsCreated, stops, closeCalls, stopRaised>>

\* text = await response.text(); http_requests_failed.inc(); log; return None
Text(c) ==
    /\ calls[c].pc = "text"
    /\ http_requests_failed' = inc(http_requests_failed, calls[c].url)
    /\ UNCHANGED <<http_requests_timeout, http_exceptions>>
    /\ calls' = [calls EXCEPT ![c] =
           [@ EXCEPT !.pc = "done", !.outcome = "failed",
                     !.incs = Tally(calls[c]), !.ret = None]]
    /\ UNCHANGED <<session, sessionsCreated, stops, closeCalls, stopRaised>>

(***************************************************************************)
(* stop()                                                                  *)
(***************************************************************************)
\* bool(self.session): a ClientSession is truthy, None is not.
Truthy(s) == s # None

\* ClientSession.close(): releases the connector; closing again changes nothing.
close(s) == [s EXCEPT !.closed = TRUE]

\* stop() without the guard: None has no close().
stop_effect_unguarded(s) ==
    IF s = None THEN [session |-> s, closed |-> 0, raised |-> TRUE]
    ELSE [session |-> close(s), closed |-> 1, raised |-> FALSE]

\* if self.session: await self.session.close()
stop_effect(s) ==
    IF Truthy(s) THEN [session |-> close(s), closed |-> 1, raised |-> FALSE]
    ELSE [session |-> s, closed |-> 0, raised |-> FALSE]

\* stop() that first waits for every pending call.
stop_draining ==
    /\ stops < MaxStops
    /\ \A c \in Calls : calls[c].pc \notin {"enter", "read", "text"}
    /\ stops' = stops + 1
    /\ session' = stop_effect(session).session
    /\ closeCalls' = closeCalls + stop_effect(session).closed
    /\ stopRaised' = (stopRaised \/ stop_effect(session).raised)
    /\ UNCHANGED <<sessionsCreated, counters, calls>>

stop ==
    /\ stops < MaxStops
    /\ stops' = stops + 1
    /\ LET r == stop_effect(session)
       IN  /\ session' = r.session
           /\ closeCalls' = closeCalls + r.closed
           /\ stopRaised' = (stopRaised \/ r.raised)
    /\ UNCHANGED <<sessionsCreated, counters, calls>>

\* The steps of the coroutines in cs, with requests, headers and bodies
\* drawn from the given sets.
NextOver(cs, requests, postHeaders, getHeaders, bodies) ==
    \/ \E c \in cs, u \in Urls, r \in requests, h \in postHeaders, t \in Timeouts :
           post(c, u, r, h, t)
    \/ \E c \in cs, u \in Urls, p \in ParamsValues, h \in getHeaders, t \in Timeouts :
           get(c, u, p, h, t)
    \/ \E c \in cs, s \in Statuses : Respond(c, s)
    \/ \E c \in cs, k \in ExceptionKinds : Raise(c, k)
    \/ \E c \in cs, b \in bodies : Read(c, b)
    \/ \E c \in cs : Text(c)
    \/ stop

\* Concurrent coroutines with the default headers.
Next == NextOver(Calls, Requests, PostHeaders, GetHeaders, Bodies)

Spec == Init /\ [][Next]_vars

\* One coroutine with every argument varied: any JSON value (or a value
\* without a JSON form) as the request, default or caller-supplied headers,
\* and the serialization of any JSON value as the response body.
NextArgs ==
    NextOver({1}, JsonValues \cup {PyObject, PyList(<<PyObject>>)},
             PostHeaders \cup CallerHeaders, GetHeaders \cup CallerHeaders,
             Bodies \cup {json_serialize(v).bytes : v \in JsonValues})

SpecArgs == Init /\ [][NextArgs]_vars

\* The event loop resumes a coroutine when the await it is suspended at
\* completes, and the transport completes every await: with a response, a
\* body, or an error.
Resume(c) ==
    \/ \E s \in Statuses : Respond(c, s)
    \/ \E k \in ExceptionKinds : Raise(c, k)
    \/ \E b \in Bodies : Read(c, b)
    \/ Text(c)

FairSpec == Spec /\ \A c \in Calls : WF_vars(Resume(c))

(***************************************************************************)
(* What a finished call went through.                                      *)
(***************************************************************************)
Done(c) == calls[c].pc = "done"
InFlight(c) == calls[c].pc \in {"enter", "read", "text"}
\* The transport returned a response whose status is not 200.
GotNon200(c) == calls[c].status \notin {0, HTTP_200_OK}
TransportRaised(c, kind) ==
    calls[c].raisedAt = "transport" /\ calls[c].raisedKind = kind

Only(field) == [NoIncs EXCEPT ![field] = 1]

(***************************************************************************)
(* Claims.                                                                 *)
(***************************************************************************)
\* C1: every post/get call ends by returning a value; no exception escapes
\* to the caller, whatever the serializer, the transport, the body read and
\* the deserializer do.
C1_NoExceptionEscapes == \A c \in Calls : calls[c].pc # "raised"

\* C2: a call in which the transport returned a status other than 200
\* returns None and has incremented http_requests_failed for its url by
\* exactly 1.
C2_Non200CountedFailed ==
    \A c \in Calls :
        (Done(c) /\ GotNon200(c)) =>
            (calls[c].ret = None /\ calls[c].incs.failed = 1)

\* C3: a call whose transport call raised a timeout returns None, has
\* incremented http_requests_timeout for its url by exactly 1 and has left
\* the failed-status and exception counters alone.
C3_TimeoutCounted ==
    \A c \in Calls :
        (Done(c) /\ TransportRaised(c, "TimeoutError")) =>
            (calls[c].ret = None /\ calls[c].incs = Only("timeout"))

C3_Witness ==
    \E c \in Calls :
        /\ Done(c) /\ TransportRaised(c, "TimeoutError")
        /\ http_requests_timeout[<<app_name, calls[c].url>>] >= 1

\* C4: a call whose transport call raised an exception that is not a timeout
\* returns None and has incremented http_exceptions for its url by exactly 1.
C4_ExceptionCounted ==
    \A c \in Calls :
        (Done(c) /\ TransportRaised(c, "Exception")) =>
            (calls[c].ret = None /\ calls[c].incs.exceptions = 1)

C4_Witness ==
    \E c \in Calls :
        /\ Done(c) /\ TransportRaised(c, "Exception")
        /\ http_exceptions[<<app_name, calls[c].url>>] >= 1

\* C5: the timeout handed to the transport for a call is the per-call
\* timeout when one was supplied and the constructor's http_request_timeout
\* when it was omitted.
C5_DefaultTimeoutApplies ==
    \A c \in Calls :
        calls[c].pc = "enter" =>
            calls[c].inv.timeout =
                IF calls[c].timeout = None THEN http_request_timeout
                ELSE calls[c].timeout

\* C6: when the transport returns status 200 with a body that is the
\* serialization of a JSON value v, the call returns a value equal to v, and
\* that value is not the absent value of the failure paths.
C6_RoundTripNotAbsent ==
    \A c \in Calls : \A v \in JsonValues :
        (Done(c) /\ calls[c].status = HTTP_200_OK /\ calls[c].raisedAt # "read"
                 /\ calls[c].body = json_serialize(v).bytes) =>
            (calls[c].ret = v /\ calls[c].ret # None)

\* C7: stop() is idempotent: the first stop() releases the session, a later
\* stop() does not raise and leaves the executor's state as the first left
\* it, and stop() without a session is a no-op that does not raise.
C7_StopIdempotent ==
    [][ /\ stop_effect(None) = [session |-> None, closed |-> 0, raised |-> FALSE]
        /\ (stops' = stops + 1) =>
               /\ ~stopRaised'
               /\ session'.closed
               /\ stops >= 1 =>
                      (session' = session /\ counters' = counters /\ calls' = calls)
      ]_vars

C7_Witness == stops >= 2 /\ session.closed /\ ~stopRaised

\* C8: under any interleaving of concurrent calls no increment is lost: once
\* no call is in flight, each counter of a url equals the number of calls to
\* that url that ended in the outcome it counts.
EndedWith(u, outcome) ==
    {c \in Calls :
        /\ Done(c) /\ calls[c].url = u
        /\ CASE outcome = "failed" -> GotNon200(c) /\ calls[c].raisedAt = ""
             [] outcome = "timeout" -> calls[c].raisedKind = "TimeoutError"
             [] outcome = "exception" -> calls[c].raisedKind = "Exception"}

C8_NoLostIncrement ==
    (\A c \in Calls : ~InFlight(c)) =>
        \A u \in Urls :
            /\ http_requests_failed[<<app_name, u>>] = Cardinality(EndedWith(u, "failed"))
            /\ http_requests_timeout[<<app_name, u>>] = Cardinality(EndedWith(u, "timeout"))
            /\ http_exceptions[<<app_name, u>>] = Cardinality(EndedWith(u, "exception"))

\* Two calls to one url were in flight together and ended the same way.
C8_Witness ==
    \E u \in Urls :
        /\ \A c \in Calls : Done(c) /\ calls[c].url = u
        /\ http_exceptions[<<app_name, u>>] = MaxCalls

\* C9: a call in which the transport returned status 200 and the
\* deserializer raised on the body returns None, has incremented
\* http_exceptions for its url by exactly 1 and has left the failed-status
\* and timeout counters alone.
C9_DecodeFailureCounted ==
    \A c \in Calls :
        (Done(c) /\ calls[c].status = HTTP_200_OK
                 /\ calls[c].raisedAt # "read"
                 /\ ~json_deserialize(calls[c].body).ok) =>
            (calls[c].ret = None /\ calls[c].incs = Only("exceptions"))

C9_Witness ==
    \E c \in Calls :
        /\ Done(c) /\ calls[c].raisedAt = "deserialize"
        /\ calls[c].status = HTTP_200_OK
        /\ http_exceptions[<<app_name, calls[c].url>>] >= 1

\* C10: the session is created once, every post/get uses that session, and
\* the transport's close is invoked on it exactly once, however many times
\* stop() is called.
C10_ClosedExactlyOnce ==
    /\ sessionsCreated = 1
    /\ \A c \in Calls : calls[c].pc = "enter" => calls[c].inv.session = session.id
    /\ closeCalls = (IF stops = 0 THEN 0 ELSE 1)

\* C11: every transport invocation made by post or get has TLS certificate
\* verification disabled, whatever headers and timeout the caller supplies.
C11_TlsVerificationDisabled ==
    \A c \in Calls : calls[c].pc = "enter" => calls[c].inv.ssl = FALSE

C11_Witness ==
    \E c \in Calls :
        /\ calls[c].pc = "enter"
        /\ calls[c].given.headers \in CallerHeaders
        /\ calls[c].timeout # None

\* C12: within one call the steps happen in strict order: the request is
\* sent, the response awaited, the body read, the 200 body decoded; on the
\* non-200 path the text is read before the failed-status counter is
\* incremented.  No step starts before the one before it has finished,
\* whatever the other calls do.
StepOrder ==
    { <<"idle", "enter">>, <<"idle", "raised">>, <<"enter", "read">>,
      <<"enter", "text">>, <<"enter", "done">>, <<"read", "done">>,
      <<"text", "done">> }

C12_StepsInOrder ==
    [][ /\ \A c \in Calls :
            LET a == calls[c]
                b == calls'[c]
            IN  /\ a.pc # b.pc => <<a.pc, b.pc>> \in StepOrder
                /\ b.sent # a.sent => a.pc = "idle"
                /\ b.status # a.status =>
                       /\ a.pc = "enter" /\ a.sent = 1
                       /\ b.pc = (IF b.status = HTTP_200_OK THEN "read" ELSE "text")
                /\ b.body # a.body => a.pc = "read"
                /\ b.ret # a.ret => (a.pc = "read" /\ b.ret = json_deserialize(b.body).val)
        /\ http_requests_failed' # http_requests_failed =>
               \E c \in Calls : calls[c].pc = "text" /\ calls'[c].pc = "done"
      ]_vars

\* Two calls ran side by side, one down the 200 path and one down the
\* non-200 path.
C12_Witness ==
    \E c, d \in Calls :
        /\ Done(c) /\ calls[c].outcome = "ok" /\ calls[c].ret # None
        /\ Done(d) /\ calls[d].outcome = "failed" /\ calls[d].incs.failed = 1

\* C13: the absent value signals failure: a call that returns None took a
\* failure path and has incremented exactly one of the three counters, and a
\* call with status 200 and a successfully decoded body never returns None.
C13_AbsentMeansFailure ==
    \A c \in Calls :
        Done(c) =>
            /\ calls[c].ret = None =>
                   calls[c].incs.failed + calls[c].incs.timeout
                       + calls[c].incs.exceptions = 1
            /\ (calls[c].status = HTTP_200_OK /\ calls[c].raisedAt = "") =>
                   calls[c].ret # None

\* The awaits a call still has before it: entering the request context,
\* then one read of the body.
AwaitsLeft(pc) == IF pc = "enter" THEN 2 ELSE IF pc \in {"read", "text"} THEN 1 ELSE 0

C14_EventuallyReturns == \A c \in Calls : [](InFlight(c) => <>Done(c))

C15_InvocationArguments ==
    \A c \in Calls :
        /\ calls[c].sent <= 1
        /\ calls[c].pc = "enter" =>
               LET g == calls[c].given
                   i == calls[c].inv
               IN  /\ i.verb = g.verb
                   /\ i.url = calls[c].url
                   /\ g.verb = "GET" => (i.data = None /\ i.params = g.params)
                   /\ g.verb = "POST" =>
                          /\ json_serialize(g.request).ok
                          /\ i.data = PyBytes(json_serialize(g.request).bytes)
                          /\ i.params = "None"

C15_Witness ==
    \E c \in Calls :
        /\ calls[c].pc = "enter" /\ calls[c].sent = 1
        /\ calls[c].given.verb = "GET" /\ calls[c].inv.params = "q=1"

\* C16: a call increases the three counters by at most 1 in total, and a
\* call that completes the 200 path with a decoded body changes no counter.
RECURSIVE SumOver(_, _)
SumOver(f, S) ==
    IF S = {} THEN 0
    ELSE LET x == CHOOSE y \in S : TRUE
         IN  f[x] + SumOver(f, S \ {x})

IncsOf(c) ==
    calls[c].incs.failed + calls[c].incs.timeout + calls[c].incs.exceptions

C16_AtMostOneIncrement ==
    /\ \A c \in Calls :
           /\ IncsOf(c) <= 1
           /\ (Done(c) /\ calls[c].status = HTTP_200_OK /\ calls[c].raisedAt = "") =>
                  IncsOf(c) = 0
    /\ SumOver(http_requests_failed, Labels) + SumOver(http_requests_timeout, Labels)
           + SumOver(http_exceptions, Labels)
         = SumOver([c \in Calls |-> IncsOf(c)], Calls)
    /\ SumOver(http_requests_failed, Labels) + SumOver(http_requests_timeout, Labels)
           + SumOver(http_exceptions, Labels)
         <= Cardinality({c \in Calls : Done(c) /\ calls[c].outcome # "ok"})

C16_Witness ==
    \E c, d \in Calls :
        /\ Done(c) /\ calls[c].raisedKind = "TimeoutError" /\ IncsOf(c) = 1
        /\ Done(d) /\ calls[d].outcome = "ok" /\ calls[d].url = calls[c].url

\* C17: a call for url u changes only the counter entries labelled
\* (app_name, u), under any interleaving, and no entry ever decreases.
C17_CountersIsolatedByLabel ==
    [][ \A l \in Labels :
            /\ http_requests_failed'[l] >= http_requests_failed[l]
            /\ http_requests_timeout'[l] >= http_requests_timeout[l]
            /\ http_exceptions'[l] >= http_exceptions[l]
            /\ \A c \in Calls :
                   (calls'[c] # calls[c] /\ calls'[c].url # l[2]) =>
                       /\ http_requests_failed'[l] = http_requests_failed[l]
                       /\ http_requests_timeout'[l] = http_requests_timeout[l]
                       /\ http_exceptions'[l] = http_exceptions[l]
      ]_vars

C17_Witness ==
    \E c, d \in Calls :
        /\ Done(c) /\ Done(d) /\ calls[c].url # calls[d].url
        /\ http_exceptions[<<app_name, calls[c].url>>] = 1
        /\ http_exceptions[<<app_name, calls[d].url>>] = 0
        /\ http_requests_failed[<<app_name, calls[d].url>>] = 1
        /\ http_requests_failed[<<app_name, calls[c].url>>] = 0

\* C18: in post the request is serialized before any transport invocation:
\* when the serializer raises, no invocation is made for the call and none
\* of the three counters changes.
C18_SerializeBeforeSend ==
    [][ \A c \in Calls :
            (calls[c].pc = "idle" /\ calls'[c].raisedAt = "serialize") =>
                /\ calls'[c].sent = 0
                /\ calls'[c].inv = NoInv
                /\ counters' = counters
      ]_vars

C18_Witness ==
    \E c, d \in Calls :
        /\ calls[c].pc = "raised" /\ calls[c].raisedAt = "serialize"
        /\ calls[c].sent = 0
        /\ Done(d) /\ IncsOf(d) = 1

\* C19: a call issued after stop() has closed the session does not raise:
\* it returns None and increments http_exceptions for its url by exactly 1,
\* leaving the other two counters alone.
C19_CallAfterStop ==
    [][ \A c \in Calls :
            /\ (calls[c].pc = "idle" /\ session.closed) => calls'[c].pc # "raised"
            /\ (calls[c].pc = "enter" /\ calls[c].inv.sessionClosed
                    /\ calls'[c] # calls[c]) =>
                   /\ calls'[c].pc = "done"
                   /\ calls'[c].ret = None
                   /\ calls'[c].incs = Only("exceptions")
      ]_vars
====
